---- MODULE Spec2Model ----
(***************************************************************************)
(* Model of agsa-site/tools/extract_site_images.py: the bounded crawl of   *)
(* a site, the image fetcher and filter, the perceptual-hash clustering    *)
(* and the manifest writer.                                                *)
(*                                                                         *)
(* Page URLs are canonical page URLs ("p0", ...).  Image URLs are numbers. *)
(* Host names are tuples of one-character strings so that the suffix test  *)
(* of allowed_image_domain is computed character by character.  A stored   *)
(* file name is the pair <<digest, extension>>.  A cluster label           *)
(* "cluster-NNN" is the tuple of its decimal digits (the constant prefix   *)
(* does not take part in any comparison).  Candidate objects are referred  *)
(* to by their position in list(downloaded_by_url.values()).               *)
(***************************************************************************)
EXTENDS Integers, Sequences, FiniteSets, TLC

\* ------------------------------------------------------------------ bounds
MaxPagesBound == 4
MaxDepthBound == 2
MaxCandidates == 3
FewClusters == 30
ManyClusters == 1000

\* ------------------------------------------------------- program constants
MIN_BYTES == 40960
MIN_LONGEST_SIDE == 600
PHASH_DISTANCE_THRESHOLD == 6
MAX_RETRIES == 3

\* --------------------------------------------------------- generic helpers
Max2(a, b) == IF a >= b THEN a ELSE b

SeqToSet(s) == {s[i] : i \in 1..Len(s)}

EndsWith(s, suf) ==
    /\ Len(s) >= Len(suf)
    /\ SubSeq(s, Len(s) - Len(suf) + 1, Len(s)) = suf

LowerChar(ch) ==
    CASE ch = "A" -> "a"
      [] ch = "B" -> "b"
      [] ch = "C" -> "c"
      [] OTHER -> ch

Lower(s) == [i \in 1..Len(s) |-> LowerChar(s[i])]

\* ---------------------------------------------------------------- the site
\* The crawled site: its pages, the links and images each page's markup
\* holds, and what each image URL serves.  The site does not change
\* during a run.
Pages == {"p0", "p1", "p2", "p3"}

base_hostname == <<"a">>

StartPage == "p0"

\* extract_links(html, page_url, base_hostname) of each page's markup
SiteLinks(p) ==
    CASE p = "p0" -> <<"p1", "p2">>
      [] p = "p1" -> <<"p2", "p0">>
      [] p = "p2" -> <<"p3">>
      [] p = "p3" -> <<"p0">>

\* extract_image_urls(html, page_url) of each page's markup
SiteImages(p) ==
    CASE p = "p0" -> <<1, 2, 5, 7>>
      [] p = "p1" -> <<1, 3, 6, 8, 10>>
      [] p = "p2" -> <<5, 4, 9, 11>>
      [] p = "p3" -> <<3, 12>>

ImageUrls == 1..12

\* host, path suffix, logo-like file name and served content of each image URL
ImgHost(u) ==
    CASE u = 1 -> <<"a">>
      [] u = 2 -> <<"b", "a">>
      [] u = 3 -> <<"b", ".", "a">>
      [] u = 4 -> <<"c">>
      [] u = 5 -> <<"a">>
      [] u \in 6..12 -> <<"a">>

ImgSuffix(u) ==
    CASE u = 1 -> ".jpg"
      [] u = 2 -> ".png"
      [] u = 3 -> ".avif"
      [] u = 4 -> ""
      [] u = 5 -> ".jpeg"
      [] u = 6 -> ".pdf"
      [] u = 7 -> ".jpg"
      [] u = 8 -> ".png"
      [] u = 9 -> ".svg"
      [] u = 10 -> ".png"
      [] u = 11 -> ".jpg"
      [] u = 12 -> ".avif"

\* LOGO_HINT_RE.search(filename), line 186
ImgLogoName(u) == u = 7

ImgContent(u) ==
    CASE u = 1 -> "A"
      [] u = 2 -> "B"
      [] u = 3 -> "C"
      [] u = 4 -> "D"
      [] u = 5 -> "E"
      [] u = 6 -> "A"
      [] u = 7 -> "G"
      [] u = 8 -> "H"
      [] u = 9 -> "S"
      [] u = 10 -> "A"
      [] u = 11 -> "F"
      [] u = 12 -> "A"

\* what the decoder and the hashers report for each served content ("B" is
\* not an image: Image.open raises)
Content(c) ==
    CASE c = "A" -> [decodable |-> TRUE, format |-> "jpeg", width |-> 640, height |-> 480,
                     bytes |-> 80000, phash |-> 0, ahash |-> 0]
      [] c = "B" -> [decodable |-> FALSE, format |-> "", width |-> 0, height |-> 0,
                     bytes |-> 50000, phash |-> 0, ahash |-> 0]
      [] c = "C" -> [decodable |-> TRUE, format |-> "avif", width |-> 900, height |-> 600,
                     bytes |-> 50000, phash |-> 63, ahash |-> 0]
      [] c = "D" -> [decodable |-> TRUE, format |-> "mpo", width |-> 900, height |-> 600,
                     bytes |-> 50000, phash |-> 127, ahash |-> 0]
      [] c = "E" -> [decodable |-> TRUE, format |-> "jpeg", width |-> 900, height |-> 600,
                     bytes |-> 30720, phash |-> 4032, ahash |-> 7]
      [] c = "F" -> [decodable |-> TRUE, format |-> "jpeg", width |-> 1000, height |-> 800,
                     bytes |-> 90000, phash |-> 1, ahash |-> 0]
      [] c = "G" -> [decodable |-> TRUE, format |-> "jpeg", width |-> 900, height |-> 600,
                     bytes |-> 60000, phash |-> 4095, ahash |-> 7]
      [] c = "H" -> [decodable |-> TRUE, format |-> "png", width |-> 500, height |-> 400,
                     bytes |-> 50000, phash |-> 4095, ahash |-> 7]
      [] c = "S" -> [decodable |-> TRUE, format |-> "svg", width |-> 900, height |-> 600,
                     bytes |-> 60000, phash |-> 4095, ahash |-> 7]

\* ------------------------------------------------------------ pure helpers
RasterSuffixes == {".jpg", ".jpeg", ".png", ".webp", ".gif", ".bmp", ".tiff", ".avif"}

IMG_EXT_RE(suffix) == suffix \in RasterSuffixes

\* faulty variant: the suffix test without the separating dot
allowed_image_domain_nodot(url, allowed) ==
    LET host == Lower(ImgHost(url))
    IN \E domain \in allowed :
          \/ host = Lower(domain)
          \/ EndsWith(host, Lower(domain))

allowed_image_domain(url, allowed) ==
    LET host == Lower(ImgHost(url))
    IN \E domain \in allowed :
          \/ host = Lower(domain)
          \/ EndsWith(host, <<".">> \o Lower(domain))

\* line 380-381: split entries, stripped and lowered, empty ones dropped,
\* plus the base hostname
AllowedDomains(raw) ==
    {Lower(d) : d \in {e \in raw : e # <<>>}} \cup {Lower(base_hostname)}

DotFormat(fmt) ==
    CASE fmt = "png" -> ".png"
      [] fmt = "avif" -> ".avif"
      [] fmt = "mpo" -> ".mpo"
      [] fmt = "jpeg" -> ".jpeg"
      [] fmt = "svg" -> ".svg"

guess_extension(url, image) ==
    LET ext == ImgSuffix(url)
    IN IF ext \in {".jpg", ".jpeg", ".png", ".webp", ".gif", ".bmp", ".tif", ".tiff", ".avif"}
       THEN (IF ext # ".jpeg" THEN ext ELSE ".jpg")
       ELSE IF image.format = "jpeg" THEN ".jpg"
       ELSE IF image.format # "" THEN DotFormat(image.format)
       ELSE ".jpg"

\* faulty variant: the byte-size test is missing
should_skip_nobytes(url, width, height, num_bytes, ext) ==
    LET longest == Max2(width, height)
    IN \/ ext = ".svg"
       \/ ImgLogoName(url)
       \/ longest < MIN_LONGEST_SIDE

should_skip(url, width, height, num_bytes, ext) ==
    LET longest == Max2(width, height)
    IN \/ ext = ".svg"
       \/ ImgLogoName(url)
       \/ num_bytes < MIN_BYTES
       \/ longest < MIN_LONGEST_SIDE

\* a perceptual hash string: the imagehash hex string, or "ahash-..." from
\* the fallback, held as its kind and the number its hex digits denote
compute_phash(image, primary) ==
    IF primary THEN [kind |-> "phash", bits |-> image.phash]
    ELSE [kind |-> "ahash", bits |-> image.ahash]

RECURSIVE BitCount(_, _)
\* (x ^ y).bit_count()
BitCount(x, y) ==
    IF x = 0 /\ y = 0 THEN 0
    ELSE (IF x % 2 # y % 2 THEN 1 ELSE 0) + BitCount(x \div 2, y \div 2)

hamming_distance_hex(a, b) ==
    IF a.kind = "ahash" \/ b.kind = "ahash"
    THEN (IF a = b THEN 0 ELSE 64)
    ELSE BitCount(a.bits, b.bits)

\* faulty variant: > in place of >=, so that a tie goes to the later candidate
choose_better_strict(a, b) ==
    IF \/ a.bytes > b.bytes
       \/ a.bytes = b.bytes /\ a.width * a.height > b.width * b.height
    THEN a ELSE b

choose_better(a, b) ==
    IF \/ a.bytes > b.bytes
       \/ a.bytes = b.bytes /\ a.width * a.height >= b.width * b.height
    THEN a ELSE b

RECURSIVE Digits(_)
Digits(n) == IF n < 10 THEN <<n>> ELSE Digits(n \div 10) \o <<n % 10>>

\* f"cluster-{n:03d}"
ClusterLabel(n) ==
    LET d == Digits(n)
    IN IF Len(d) >= 3 THEN d ELSE [i \in 1..(3 - Len(d)) |-> 0] \o d

RECURSIVE StrLess(_, _)
\* Python's < on two strings
StrLess(s, t) ==
    IF t = <<>> THEN FALSE
    ELSE IF s = <<>> THEN TRUE
    ELSE IF s[1] # t[1] THEN s[1] < t[1]
    ELSE StrLess(Tail(s), Tail(t))

\* -------------------------------------------------------------- the state
VARIABLES
    pc,                \* position in main: "start", "crawl", "images", "cluster", "prune",
                       \* "write", "done" (returned 0), "exit" (returned 1)
    max_pages,         \* args.max_pages
    max_depth,         \* args.max_depth
    allow_domains,     \* args.allow_domains, split at the commas
    allowed_domains,   \* the set built at lines 380-381
    rp,                \* the robots policy: the pages can_fetch refuses
    imagehash,         \* whether the imagehash module was importable
    queue,             \* deque of <<page, depth>>
    visited_pages,
    downloaded_by_url, \* the dict's values, in insertion order
    page_url,          \* the page whose images are being processed
    depth,
    images_todo,       \* rest of extract_image_urls(html, page_url)
    files,             \* image files in output_dir
    approved,          \* approved-manifest.json: "absent", "empty" or "curated"
    clusters,          \* cluster_candidates' list of clusters, as it returned
    deduped,           \* cluster_candidates' result (positions of candidates)
    manifest,          \* manifest.json as written
    page_fetches,      \* history: <<page, depth>> of every polite_get of a page
    parsed_pages,      \* history: the pages whose markup was parsed
    download_calls,    \* history: number of download_image calls per image URL
    file_bytes,        \* the bytes each file of output_dir holds
    base_url,          \* args.base_url as urlparse splits it
    prior_files,       \* the image files output_dir held when the run started
    returned,          \* main's return value: {} while it runs, then {0} or {1}
    written,           \* the other output files this run has written
    robots_fetched,    \* whether rp.read() has requested robots.txt
    image_outcome,     \* history: how the latest step of the image loop ended
    page_response,     \* history: the response to the latest page request
    site,              \* how the site answers: anything at each request, or the
                       \* same answer to the same URL at every request
    run,               \* 1 in the first run of the program, 2 in a second one
    first_run,         \* history: manifest.json and the files the first run left
    fetch              \* the request layer: the clock, last_request_ts and the
                       \* requests of the page fetch or download under way

vars == <<pc, max_pages, max_depth, allow_domains, allowed_domains, rp, imagehash,
          queue, visited_pages, downloaded_by_url, page_url, depth, images_todo,
          files, approved, clusters, deduped, manifest,
          page_fetches, parsed_pages, download_calls,
          file_bytes, base_url, prior_files, returned, written, robots_fetched,
          image_outcome, page_response, site, run, first_run, fetch>>

config_vars == <<max_pages, max_depth, allow_domains, allowed_domains, rp, imagehash>>
crawl_vars == <<queue, visited_pages, page_url, depth, images_todo>>
cluster_vars == <<clusters, deduped>>
history_vars == <<page_fetches, parsed_pages, download_calls>>
env_vars == <<base_url, prior_files, site, run, first_run, fetch>>
main_vars == <<pc, max_pages, max_depth, allow_domains, allowed_domains, rp, imagehash,
               queue, visited_pages, downloaded_by_url, page_url, depth, images_todo,
               files, approved, clusters, deduped, manifest,
               page_fetches, parsed_pages, download_calls,
               file_bytes, base_url, prior_files, returned, written, robots_fetched,
               image_outcome, page_response, site, run, first_run>>
exit_vars == <<returned, written, robots_fetched>>
outcome_vars == <<image_outcome, page_response>>

\* ------------------------------------------------------------------ inputs
AllowPool == { {<<"a">>}, {<<"C">>, <<>>}, {<<"b", "a">>} }

RobotsPool == { {}, {"p1"}, {"p0"} }

PriorFilesPool == { {}, {<<"Z", ".jpg">>, <<"Z", ".avif">>, <<"A", ".jpg">>} }

\* what the files an earlier run left hold: a file of that run holds the
\* bytes its name is the digest of, unless the run was cut short while
\* writing it
PriorBytes(f) == IF f = <<"A", ".jpg">> THEN "cut" ELSE f[1]

PageResponses == {"exc", "s404", "s500", "nonhtml", "html"}

Responses == {"exc", "s403", "s500", "s400", "s200", "s200empty"}

\* -------------------------------------------------------------------- Init
\* the answers of a site that is free to answer anything at each request
AnySite(robots) ==
    [fixed |-> FALSE, failing_pages |-> {}, failing_images |-> {}, robots |-> robots]

\* --base-url as urlparse splits it: a usable one, a bare host name (no
\* scheme, no host), another scheme, and a scheme with no host
BaseUrlPool ==
    {[scheme |-> "https", hostname |-> base_hostname],
     [scheme |-> "", hostname |-> <<>>],
     [scheme |-> "ftp", hostname |-> base_hostname],
     [scheme |-> "http", hostname |-> <<>>]}

\* the responses the site may give to a request for page p
PageResponsesAt(p) ==
    IF ~site.fixed THEN PageResponses
    ELSE IF p \in site.failing_pages THEN {"s500"} ELSE {"html"}

\* the responses the site may give to the successive requests for image u
ImageResponsesAt(u) ==
    IF ~site.fixed THEN [1..MAX_RETRIES -> Responses]
    ELSE IF u \in site.failing_images THEN {[n \in 1..MAX_RETRIES |-> "s500"]}
    ELSE {[n \in 1..MAX_RETRIES |-> "s200"]}

\* the request layer at rest (its steps are followed under SpecFetch)
IdleFetch ==
    [kind |-> "none", url |-> 0, wait_s |-> 0, now |-> 0, last_request_ts |-> 0,
     attempt |-> 0, result |-> "none", base |-> 0, log |-> <<>>]

\* main, lines 368-371: the state when main has parsed its arguments
InitRun ==
    /\ pc = "start"
    /\ max_pages \in 1..MaxPagesBound
    /\ max_depth \in 0..MaxDepthBound
    /\ allow_domains \in AllowPool
    /\ allowed_domains = {}
    /\ rp = {}
    /\ imagehash \in BOOLEAN
    /\ queue = <<>>
    /\ visited_pages = {}
    /\ downloaded_by_url = <<>>
    /\ page_url = StartPage
    /\ depth = 0
    /\ images_todo = <<>>
    /\ files \in PriorFilesPool
    /\ file_bytes = [f \in files |-> PriorBytes(f)]
    /\ prior_files = files
    /\ base_url \in BaseUrlPool
    /\ returned = {}
    /\ written = {}
    /\ robots_fetched = FALSE
    /\ image_outcome = "none"
    /\ page_response = "none"
    /\ approved \in {"absent", "curated"}
    /\ clusters = <<>>
    /\ deduped = <<>>
    /\ manifest = <<>>
    /\ page_fetches = <<>>
    /\ parsed_pages = {}
    /\ download_calls = [u \in ImageUrls |-> 0]
    /\ run = 1
    /\ first_run = [manifest |-> <<>>, files |-> {}, file_bytes |-> <<>>]
    /\ fetch = IdleFetch

Init == InitRun /\ site \in {AnySite(r) : r \in RobotsPool}

\* ---------------------------------------------------------------- set-up
\* faulty variant: only the scheme is tested
BaseUrlInvalid_schemeonly(b) == b.scheme \notin {"http", "https"}

\* line 375
BaseUrlInvalid(b) == b.scheme \notin {"http", "https"} \/ b.hostname = <<>>

\* lines 373-377
RejectBaseUrl ==
    /\ pc = "start"
    /\ BaseUrlInvalid(base_url)
    /\ returned' = {1}
    /\ pc' = "exit"
    /\ UNCHANGED <<env_vars, config_vars, crawl_vars, downloaded_by_url, files,
                   file_bytes, approved, cluster_vars, manifest, history_vars,
                   written, robots_fetched, outcome_vars>>

\* lines 378-399: the allowlist is built, robots.txt is requested and the
\* queue is seeded
Setup ==
    /\ pc = "start"
    /\ ~BaseUrlInvalid(base_url)
    /\ allowed_domains' = AllowedDomains(allow_domains)
    /\ rp' = site.robots
    /\ robots_fetched' = TRUE
    /\ queue' = << <<StartPage, 0>> >>
    /\ visited_pages' = {}
    /\ pc' = "crawl"
    /\ UNCHANGED <<env_vars, max_pages, max_depth, allow_domains, imagehash,
                   downloaded_by_url, page_url, depth, images_todo, files,
                   file_bytes, approved, cluster_vars, manifest, history_vars,
                   returned, written, outcome_vars>>

\* -------------------------------------------------------- the crawl loop
\* faulty variant: <= in place of <
LoopGuard_inclusive == queue # <<>> /\ Cardinality(visited_pages) <= max_pages

\* line 401
LoopGuard == queue # <<>> /\ Cardinality(visited_pages) < max_pages

\* faulty variant: the depth test off by one
DepthExceeded_late(d) == d > max_depth + 1

\* line 405
DepthExceeded(d) == d > max_depth

\* faulty variant: the robots policy is not consulted
can_fetch_all(url) == url \in Pages

\* line 407: rp.can_fetch(USER_AGENT, page_url)
can_fetch(url) == url \notin rp

\* faulty variant: a link is taken to lie two hops further
LinkDepth_two(d) == d + 2

\* line 421
LinkDepth(d) == d + 1

\* faulty variant: the Content-Type of the response is not looked at
PageFailed_anytype(response) == response \in {"exc", "s404", "s500"}

\* line 411
PageFailed(response) == response \in {"exc", "s404", "s500", "nonhtml"}

RECURSIVE EnqueueLinks(_, _, _, _)
\* lines 419-421
EnqueueLinks(q, links, visited, d) ==
    IF links = <<>> THEN q
    ELSE EnqueueLinks(IF Head(links) \notin visited
                      THEN Append(q, <<Head(links), LinkDepth(d)>>)
                      ELSE q,
                      Tail(links), visited, d)

\* line 401 false: the loop ends and cluster_candidates is entered
LoopExit ==
    /\ pc = "crawl"
    /\ ~LoopGuard
    /\ pc' = "cluster"
    /\ UNCHANGED <<env_vars, exit_vars, outcome_vars, file_bytes, config_vars, crawl_vars, downloaded_by_url, files, approved,
                   cluster_vars, manifest, history_vars>>

\* lines 402-404
SkipVisited ==
    /\ pc = "crawl"
    /\ LoopGuard
    /\ Head(queue)[1] \in visited_pages
    /\ queue' = Tail(queue)
    /\ UNCHANGED <<env_vars, exit_vars, outcome_vars, file_bytes, pc, config_vars, visited_pages, page_url, depth, images_todo,
                   downloaded_by_url, files, approved, cluster_vars, manifest,
                   history_vars>>

\* lines 402-406
SkipDepth ==
    /\ pc = "crawl"
    /\ LoopGuard
    /\ Head(queue)[1] \notin visited_pages
    /\ DepthExceeded(Head(queue)[2])
    /\ queue' = Tail(queue)
    /\ UNCHANGED <<env_vars, exit_vars, outcome_vars, file_bytes, pc, config_vars, visited_pages, page_url, depth, images_todo,
                   downloaded_by_url, files, approved, cluster_vars, manifest,
                   history_vars>>

\* lines 402-408
SkipRobots ==
    /\ pc = "crawl"
    /\ LoopGuard
    /\ Head(queue)[1] \notin visited_pages
    /\ ~DepthExceeded(Head(queue)[2])
    /\ ~can_fetch(Head(queue)[1])
    /\ queue' = Tail(queue)
    /\ UNCHANGED <<env_vars, exit_vars, outcome_vars, file_bytes, pc, config_vars, visited_pages, page_url, depth, images_todo,
                   downloaded_by_url, files, approved, cluster_vars, manifest,
                   history_vars>>

\* faulty variant: a failed page fetch ends the run
FetchFailed_abort ==
    /\ pc = "crawl"
    /\ LoopGuard
    /\ Head(queue)[1] \notin visited_pages
    /\ ~DepthExceeded(Head(queue)[2])
    /\ can_fetch(Head(queue)[1])
    /\ \E response \in PageResponsesAt(Head(queue)[1]) :
          /\ PageFailed(response)
          /\ page_fetches' = Append(page_fetches, Head(queue))
          /\ page_response' = response
    /\ returned' = {1}
    /\ pc' = "exit"
    /\ UNCHANGED <<env_vars, config_vars, crawl_vars, downloaded_by_url, files,
                   file_bytes, approved, cluster_vars, manifest, parsed_pages,
                   download_calls, written, robots_fetched, image_outcome>>

\* lines 402-413: the page is fetched and the fetch fails, is not ok or
\* is not HTML
FetchFailed ==
    /\ pc = "crawl"
    /\ LoopGuard
    /\ Head(queue)[1] \notin visited_pages
    /\ ~DepthExceeded(Head(queue)[2])
    /\ can_fetch(Head(queue)[1])
    /\ \E response \in PageResponsesAt(Head(queue)[1]) :
          /\ PageFailed(response)
          /\ page_fetches' = Append(page_fetches, Head(queue))
          /\ page_response' = response
          /\ visited_pages' = visited_pages \cup {Head(queue)[1]}
          /\ queue' = Tail(queue)
    /\ UNCHANGED <<env_vars, exit_vars, image_outcome, file_bytes, pc, config_vars, page_url, depth, images_todo,
                   downloaded_by_url, files, approved, cluster_vars, manifest,
                   parsed_pages, download_calls>>

\* lines 402-421: the page is fetched, marked visited and its links enqueued;
\* its images are processed next
FetchHtml ==
    /\ pc = "crawl"
    /\ LoopGuard
    /\ Head(queue)[1] \notin visited_pages
    /\ ~DepthExceeded(Head(queue)[2])
    /\ can_fetch(Head(queue)[1])
    /\ \E response \in PageResponsesAt(Head(queue)[1]) :
          /\ ~PageFailed(response)
          /\ page_fetches' = Append(page_fetches, Head(queue))
          /\ page_response' = response
          /\ parsed_pages' = parsed_pages \cup {Head(queue)[1]}
          /\ page_url' = Head(queue)[1]
          /\ depth' = Head(queue)[2]
          /\ visited_pages' = visited_pages \cup {Head(queue)[1]}
          /\ queue' = EnqueueLinks(Tail(queue), SiteLinks(Head(queue)[1]),
                                   visited_pages', Head(queue)[2])
          /\ images_todo' = SiteImages(Head(queue)[1])
          /\ pc' = "images"
    /\ UNCHANGED <<env_vars, exit_vars, image_outcome, file_bytes, config_vars, downloaded_by_url, files, approved, cluster_vars,
                   manifest, download_calls>>

\* ------------------------------------------------------- the image loop
RECURSIVE download_attempt(_, _, _)
\* lines 265-279: the attempts of download_image from attempt number n on,
\* against the responses the server gives to the successive requests;
\* the result is the content served, or "None"
download_attempt(url, responses, n) ==
    IF n > MAX_RETRIES THEN "None"
    ELSE LET response == responses[n]
         IN IF response = "exc" THEN download_attempt(url, responses, n + 1)
            ELSE IF response = "s403" THEN "None"
            ELSE IF response = "s500" THEN download_attempt(url, responses, n + 1)
            ELSE IF response = "s400" THEN "None"
            ELSE IF response = "s200empty" THEN "Empty"
            ELSE ImgContent(url)

download_image(url, responses) == download_attempt(url, responses, 1)

\* line 432: what download_image may return for url, over the answers the
\* site may give to its requests
DownloadResults(url) ==
    {download_image(url, responses) : responses \in ImageResponsesAt(url)}

\* line 424
AlreadyDownloaded(url) ==
    \E i \in 1..Len(downloaded_by_url) : downloaded_by_url[i].sourceImageUrl = url

\* lines 428-430
SuffixRejected(url) ==
    LET ext_hint == ImgSuffix(url)
    IN ext_hint # "" /\ ~IMG_EXT_RE(ext_hint) /\ ext_hint # ".svg"

\* lines 436-448: the downloaded bytes decode and pass the acceptance filter
Accepted(url, blob) ==
    /\ blob \notin {"None", "Empty"}
    /\ Content(blob).decodable
    /\ LET image == Content(blob)
       IN ~should_skip(url, image.width, image.height, image.bytes,
                       guess_extension(url, image))

\* lines 450-467
NewCandidate(url, blob, page) ==
    LET image == Content(blob)
        ext == guess_extension(url, image)
    IN [id |-> blob,
        filename |-> <<blob, ext>>,
        sourcePage |-> page,
        sourceImageUrl |-> url,
        width |-> image.width,
        height |-> image.height,
        bytes |-> image.bytes,
        phash |-> compute_phash(image, imagehash),
        phashClusterId |-> <<>>]

\* lines 432-448: why a downloaded image is dropped
DropOutcome(url, blob) ==
    IF blob \in {"None", "Empty"} THEN "nobytes"
    ELSE IF ~Content(blob).decodable THEN "undecodable"
    ELSE "filtered"

\* lines 454-455: the file is written unless one of that name exists
write_bytes(fb, name, blob) ==
    IF name \in DOMAIN fb THEN fb
    ELSE [f \in DOMAIN fb \cup {name} |-> IF f = name THEN blob ELSE fb[f]]

\* lines 423-425
ImageKnown ==
    /\ pc = "images"
    /\ images_todo # <<>>
    /\ AlreadyDownloaded(Head(images_todo))
    /\ images_todo' = Tail(images_todo)
    /\ image_outcome' = "known"
    /\ UNCHANGED <<env_vars, exit_vars, page_response, file_bytes, pc, config_vars, queue, visited_pages, page_url, depth,
                   downloaded_by_url, files, approved, cluster_vars, manifest,
                   history_vars>>

\* lines 423-427
ImageHostRefused ==
    /\ pc = "images"
    /\ images_todo # <<>>
    /\ ~AlreadyDownloaded(Head(images_todo))
    /\ ~allowed_image_domain(Head(images_todo), allowed_domains)
    /\ images_todo' = Tail(images_todo)
    /\ image_outcome' = "host"
    /\ UNCHANGED <<env_vars, exit_vars, page_response, file_bytes, pc, config_vars, queue, visited_pages, page_url, depth,
                   downloaded_by_url, files, approved, cluster_vars, manifest,
                   history_vars>>

\* lines 423-430
ImageSuffixRefused ==
    /\ pc = "images"
    /\ images_todo # <<>>
    /\ ~AlreadyDownloaded(Head(images_todo))
    /\ allowed_image_domain(Head(images_todo), allowed_domains)
    /\ SuffixRejected(Head(images_todo))
    /\ images_todo' = Tail(images_todo)
    /\ image_outcome' = "suffix"
    /\ UNCHANGED <<env_vars, exit_vars, page_response, file_bytes, pc, config_vars, queue, visited_pages, page_url, depth,
                   downloaded_by_url, files, approved, cluster_vars, manifest,
                   history_vars>>

\* lines 423-448: the image is downloaded and dropped (no bytes, bytes that
\* do not decode, or an image the acceptance filter rejects)
ImageDropped ==
    /\ pc = "images"
    /\ images_todo # <<>>
    /\ LET url == Head(images_todo)
       IN /\ ~AlreadyDownloaded(url)
          /\ allowed_image_domain(url, allowed_domains)
          /\ ~SuffixRejected(url)
          /\ \E blob \in DownloadResults(url) :
                /\ ~Accepted(url, blob)
                /\ image_outcome' = DropOutcome(url, blob)
          /\ download_calls' = [download_calls EXCEPT ![url] = @ + 1]
    /\ images_todo' = Tail(images_todo)
    /\ UNCHANGED <<env_vars, exit_vars, page_response, file_bytes, pc, config_vars, queue, visited_pages, page_url, depth,
                   downloaded_by_url, files, approved, cluster_vars, manifest,
                   page_fetches, parsed_pages>>

\* lines 423-468: the image is downloaded, accepted, stored and recorded
ImageAccepted ==
    /\ pc = "images"
    /\ images_todo # <<>>
    /\ LET url == Head(images_todo)
       IN /\ ~AlreadyDownloaded(url)
          /\ allowed_image_domain(url, allowed_domains)
          /\ ~SuffixRejected(url)
          /\ \E blob \in DownloadResults(url) :
                /\ Accepted(url, blob)
                /\ files' = files \cup {NewCandidate(url, blob, page_url).filename}
                /\ file_bytes' = write_bytes(file_bytes,
                                             NewCandidate(url, blob, page_url).filename,
                                             blob)
                /\ downloaded_by_url' =
                      Append(downloaded_by_url, NewCandidate(url, blob, page_url))
          /\ download_calls' = [download_calls EXCEPT ![url] = @ + 1]
    /\ images_todo' = Tail(images_todo)
    /\ image_outcome' = "accepted"
    /\ UNCHANGED <<env_vars, exit_vars, page_response, pc, config_vars, queue, visited_pages, page_url, depth,
                   approved, cluster_vars, manifest, page_fetches, parsed_pages>>

\* line 423: the page's images are exhausted; back to line 401
ImagesDone ==
    /\ pc = "images"
    /\ images_todo = <<>>
    /\ pc' = "crawl"
    /\ UNCHANGED <<env_vars, exit_vars, outcome_vars, file_bytes, config_vars, crawl_vars, downloaded_by_url, files, approved,
                   cluster_vars, manifest, history_vars>>

\* ------------------------------------------------------ cluster_candidates
\* faulty variant: < in place of <=
WithinThreshold_strict(d) == d < PHASH_DISTANCE_THRESHOLD

\* line 228
WithinThreshold(d) == d <= PHASH_DISTANCE_THRESHOLD

\* faulty variant: the candidate is compared with each cluster's best member
MatchedCluster_best(cands, cls, i) ==
    LET matching == {k \in 1..Len(cls) :
                        WithinThreshold(hamming_distance_hex(cands[i].phash,
                                                             cands[cls[k].best].phash))}
    IN IF matching = {} THEN 0
       ELSE CHOOSE k \in matching : \A m \in matching : k <= m

\* lines 225-230: position of the first cluster whose rep matches, 0 for None
MatchedCluster(cands, cls, i) ==
    LET matching == {k \in 1..Len(cls) :
                        WithinThreshold(hamming_distance_hex(cands[i].phash,
                                                             cands[cls[k].rep].phash))}
    IN IF matching = {} THEN 0
       ELSE CHOOSE k \in matching : \A m \in matching : k <= m

\* faulty variant: the arguments of choose_better swapped, so that a tie
\* goes to the candidate that joins
BetterOf_swapped(cands, best, i) ==
    IF choose_better(cands[i], cands[best]) = cands[i] THEN i ELSE best

\* line 242, on positions: choose_better returns its first argument unless
\* the second one is strictly better
BetterOf(cands, best, i) ==
    IF choose_better(cands[best], cands[i]) = cands[best] THEN best ELSE i

\* line 235
NewCluster(cls, i) ==
    [id |-> ClusterLabel(Len(cls) + 1), rep |-> i, items |-> <<i>>, best |-> i]

\* faulty variant: the candidate is compared but not added to the items
JoinCluster_noappend(cands, cluster, i) ==
    [cluster EXCEPT !.best = BetterOf(cands, @, i)]

\* lines 237-242
JoinCluster(cands, cluster, i) ==
    [cluster EXCEPT !.items = Append(@, i), !.best = BetterOf(cands, @, i)]

\* lines 224-242: one iteration of the loop over the candidates, on the
\* candidates and the clusters built so far
ClusterIteration(st, i) ==
    LET k == MatchedCluster(st.cands, st.cls, i)
    IN IF k = 0
       THEN [cands |-> [st.cands EXCEPT ![i].phashClusterId = NewCluster(st.cls, i).id],
             cls |-> Append(st.cls, NewCluster(st.cls, i))]
       ELSE [cands |-> [st.cands EXCEPT ![i].phashClusterId = st.cls[k].id],
             cls |-> [st.cls EXCEPT ![k] = JoinCluster(st.cands, @, i)]]

RECURSIVE ClusterLoop(_, _, _)
\* lines 223-242: the iterations for candidates lo..hi, in this order (the
\* range is halved, and the first half is evaluated before the second one
\* is entered, to keep the nesting of the evaluation shallow)
ClusterLoop(st, lo, hi) ==
    IF lo > hi THEN st
    ELSE IF lo = hi THEN ClusterIteration(st, lo)
    ELSE LET mid == (lo + hi) \div 2
             first == ClusterLoop(st, lo, mid)
         IN IF Len(first.cls) > 0 THEN ClusterLoop(first, mid + 1, hi) ELSE first

\* lines 244-248: the best member of every cluster, in cluster order
BestItems(cls) == [k \in 1..Len(cls) |-> cls[k].best]

\* line 247: every best member gets its cluster's label (the last cluster
\* that names a candidate as its best sets the label last)
LabelBest(cands, cls) ==
    [i \in 1..Len(cands) |->
        LET owners == {k \in 1..Len(cls) : cls[k].best = i}
        IN IF owners = {} THEN cands[i]
           ELSE [cands[i] EXCEPT !.phashClusterId =
                    cls[CHOOSE k \in owners : \A m \in owners : m <= k].id]]

\* lines 222-249: the candidates as cluster_candidates leaves them, its
\* clusters and the list it returns
cluster_candidates(candidates) ==
    LET st == ClusterLoop([cands |-> candidates, cls |-> <<>>], 1, Len(candidates))
    IN [cands |-> LabelBest(st.cands, st.cls),
        cls |-> st.cls,
        best_items |-> BestItems(st.cls)]

\* line 471
Cluster ==
    /\ pc = "cluster"
    /\ \E result \in {cluster_candidates(downloaded_by_url)} :
          /\ deduped' = result.best_items
          /\ downloaded_by_url' = result.cands
          /\ clusters' = result.cls
    /\ pc' = "prune"
    /\ UNCHANGED <<env_vars, exit_vars, outcome_vars, file_bytes, config_vars, crawl_vars, files, approved, manifest, history_vars>>

\* ------------------------------------------------------- pruning, manifest
\* line 475
PruneSuffixes == {".jpg", ".jpeg", ".png", ".webp", ".gif", ".bmp", ".tiff"}

\* faulty variant: the names to keep are read from the manifest.json on disk
KeepFilenames_stale == {manifest[r].filename : r \in 1..Len(manifest)}

\* line 473
KeepFilenames == {downloaded_by_url[deduped[k]].filename : k \in 1..Len(deduped)}

\* lines 473-480
Prune ==
    /\ pc = "prune"
    /\ files' = {f \in files : ~(f[2] \in PruneSuffixes /\ f \notin KeepFilenames)}
    /\ file_bytes' = [f \in files' |-> file_bytes[f]]
    /\ pc' = "write"
    /\ UNCHANGED <<env_vars, exit_vars, outcome_vars, config_vars, crawl_vars, downloaded_by_url, approved, cluster_vars,
                   manifest, history_vars>>

\* line 494: the sort key (phashClusterId, -bytes), compared as Python
\* compares tuples
KeyLess(a, b) ==
    \/ StrLess(a.phashClusterId, b.phashClusterId)
    \/ a.phashClusterId = b.phashClusterId /\ (0 - a.bytes) < (0 - b.bytes)

\* sorted(items, key=...): the stable sort, each item placed by the number
\* of items that go before it
Sorted(items) ==
    LET n == Len(items)
        before == [j \in 1..n |->
                     Cardinality({k \in 1..n :
                        \/ KeyLess(items[k], items[j])
                        \/ ~KeyLess(items[j], items[k]) /\ k < j})] \o <<>>
    IN [r \in 1..n |-> items[CHOOSE j \in 1..n : before[j] = r - 1]]

\* lines 482-495
ManifestEntry(item) ==
    [id |-> item.id, filename |-> item.filename, sourcePage |-> item.sourcePage,
     sourceImageUrl |-> item.sourceImageUrl, width |-> item.width,
     height |-> item.height, bytes |-> item.bytes,
     phashClusterId |-> item.phashClusterId]

\* faulty variant: the file is written whether it exists or not
ApprovedAfter_always(a) == "empty"

\* lines 498-500: approved-manifest.json after the run, from what it held
ApprovedAfter(a) == IF a = "absent" THEN "empty" ELSE a

\* lines 497-501: the files the end of the run writes
WrittenAtEnd(a) ==
    {"manifest.json", "review.html"}
       \cup (IF a = "absent" THEN {"approved-manifest.json"} ELSE {})

\* lines 482-509
WriteManifest ==
    /\ pc = "write"
    /\ manifest' =
          LET s == Sorted([k \in 1..Len(deduped) |-> downloaded_by_url[deduped[k]]])
          IN [r \in 1..Len(s) |-> ManifestEntry(s[r])]
    /\ approved' = ApprovedAfter(approved)
    /\ written' = written \cup WrittenAtEnd(approved)
    /\ returned' = {0}
    /\ pc' = "done"
    /\ UNCHANGED <<env_vars, robots_fetched, outcome_vars, file_bytes, config_vars, crawl_vars, downloaded_by_url, files, cluster_vars,
                   history_vars>>

\* ------------------------------------------------------------ the program
Next ==
    \/ RejectBaseUrl
    \/ Setup
    \/ LoopExit
    \/ SkipVisited
    \/ SkipDepth
    \/ SkipRobots
    \/ FetchFailed
    \/ FetchHtml
    \/ ImageKnown
    \/ ImageHostRefused
    \/ ImageSuffixRefused
    \/ ImageDropped
    \/ ImageAccepted
    \/ ImagesDone
    \/ Cluster
    \/ Prune
    \/ WriteManifest

Spec == Init /\ [][Next]_vars

\* ------------------------------------------------ a second run of the program
\* Sites that answer the same URL the same way at every request.
FixedSitePool ==
    {[fixed |-> TRUE, failing_pages |-> fp, failing_images |-> fi, robots |-> r] :
        fp \in {{}, {"p1"}, {"p2"}}, fi \in {{}, {1}, {3, 11}}, r \in RobotsPool}

InitRerun == InitRun /\ site \in FixedSitePool

\* main, lines 368-399, when the program is started again with the same
\* arguments on the output directory the first run left
Rerun ==
    /\ pc = "done"
    /\ run = 1
    /\ run' = 2
    /\ first_run' = [manifest |-> manifest, files |-> files, file_bytes |-> file_bytes]
    /\ prior_files' = files
    /\ pc' = "start"
    /\ allowed_domains' = {}
    /\ rp' = {}
    /\ robots_fetched' = FALSE
    /\ queue' = <<>>
    /\ visited_pages' = {}
    /\ downloaded_by_url' = <<>>
    /\ page_url' = StartPage
    /\ depth' = 0
    /\ images_todo' = <<>>
    /\ clusters' = <<>>
    /\ deduped' = <<>>
    /\ page_fetches' = <<>>
    /\ parsed_pages' = {}
    /\ download_calls' = [u \in ImageUrls |-> 0]
    /\ returned' = {}
    /\ written' = {}
    /\ image_outcome' = "none"
    /\ page_response' = "none"
    /\ UNCHANGED <<max_pages, max_depth, allow_domains, imagehash, files,
                   file_bytes, approved, manifest, base_url, site, fetch>>

NextRerun ==
    \/ Next
    \/ Rerun

SpecRerun == InitRerun /\ [][NextRerun]_vars

\* --------------------------------- cluster_candidates on arbitrary inputs
\* The candidates handed to cluster_candidates, drawn from the pools below:
\* hashes at distances 6, 6 and 12 from each other, and scores that differ
\* in bytes, in area, or tie.
HashPool == {0, 63, 4095}

ScorePool == {<<50000, 900, 600>>, <<80000, 640, 480>>, <<50000, 800, 675>>}

InputCandidate(i, bits, score, primary) ==
    [id |-> i,
     filename |-> <<i, ".jpg">>,
     sourcePage |-> StartPage,
     sourceImageUrl |-> i,
     width |-> score[2],
     height |-> score[3],
     bytes |-> score[1],
     phash |-> [kind |-> IF primary THEN "phash" ELSE "ahash", bits |-> bits],
     phashClusterId |-> <<>>]

\* the state at line 471 with the accumulator holding the given candidates
AtClustering(cands) ==
    /\ pc = "cluster"
    /\ max_pages = 1
    /\ max_depth = 0
    /\ allow_domains = {base_hostname}
    /\ allowed_domains = AllowedDomains(allow_domains)
    /\ rp = {}
    /\ queue = <<>>
    /\ visited_pages = {StartPage}
    /\ downloaded_by_url = cands
    /\ page_url = StartPage
    /\ depth = 0
    /\ images_todo = <<>>
    /\ files = {cands[i].filename : i \in 1..Len(cands)}
    /\ file_bytes = [f \in files |-> f[1]]
    /\ prior_files = {}
    /\ base_url = [scheme |-> "https", hostname |-> base_hostname]
    /\ returned = {}
    /\ written = {}
    /\ robots_fetched = TRUE
    /\ image_outcome = "accepted"
    /\ page_response = "html"
    /\ approved = "absent"
    /\ clusters = <<>>
    /\ deduped = <<>>
    /\ manifest = <<>>
    /\ page_fetches = << <<StartPage, 0>> >>
    /\ parsed_pages = {StartPage}
    /\ download_calls = [u \in ImageUrls |-> 0]
    /\ site = AnySite({})
    /\ run = 1
    /\ first_run = [manifest |-> <<>>, files |-> {}, file_bytes |-> <<>>]
    /\ fetch = IdleFetch

InitCluster ==
    /\ imagehash \in BOOLEAN
    /\ \E n \in 0..MaxCandidates :
         \E hs \in [1..n -> HashPool] :
           \E scs \in [1..n -> ScorePool] :
              AtClustering([i \in 1..n |-> InputCandidate(i, hs[i], scs[i], imagehash)])

NextCluster ==
    \/ Cluster
    \/ Prune
    \/ WriteManifest

SpecCluster == InitCluster /\ [][NextCluster]_vars

\* a run that accepted n images no two of which look alike, for a few
\* or for many images
InitMany ==
    /\ imagehash = FALSE
    /\ \E n \in (1..FewClusters) \cup {ManyClusters} :
          AtClustering([i \in 1..n |->
                           InputCandidate(i, i, <<50000, 900, 600>>, imagehash)])

SpecMany == InitMany /\ [][NextCluster]_vars

\* ------------------------------------------ polite_get and download_image
\* The requests of one page fetch followed by one image download, with
\* the clock.  Times are in milliseconds and counted from the end of the
\* request before (at the start of a run last_request_ts is 0.0 and the
\* clock is far ahead of it).
RateLimitPool == {0 - 100, 0, 800}

ElapsedPool == {0, 300, 5000}

DurationPool == {0, 200}

IdlePool == {0, 900}

\* line 394
WaitOf(rate_limit_ms) == Max2(rate_limit_ms, 0)

\* faulty variant: last_request_ts is left alone when the request raises
polite_get_nofailstamp(f, response, duration) ==
    LET elapsed == f.now - f.last_request_ts
        start == IF elapsed < f.wait_s THEN f.now + (f.wait_s - elapsed) ELSE f.now
        end == start + duration
    IN [f EXCEPT !.now = end,
                 !.last_request_ts = IF response = "exc" THEN @ ELSE end,
                 !.log = Append(@, [start |-> start, end |-> end, response |-> response])]

\* lines 252-262: the sleep, the request (which takes duration and gets
\* response, "exc" for a RequestException) and the update of last_request_ts
polite_get(f, response, duration) ==
    LET elapsed == f.now - f.last_request_ts
        start == IF elapsed < f.wait_s THEN f.now + (f.wait_s - elapsed) ELSE f.now
        end == start + duration
    IN [f EXCEPT !.now = end,
                 !.last_request_ts = end,
                 !.log = Append(@, [start |-> start, end |-> end, response |-> response])]

\* faulty variant: a 400 answer is retried too
Retryable_client(response) == response \in {"exc", "s500", "s400"}

\* lines 268 and 273: the outcomes after which the loop goes on
Retryable(response) == response \in {"exc", "s500"}

\* lines 269 and 274: the sleep before the next attempt
Backoff(response, attempt) ==
    IF response = "exc" THEN 350 * attempt ELSE 500 * attempt

\* lines 266-279: the rest of one iteration of download_image's loop, after
\* its polite_get
AfterAttempt(f, response) ==
    IF Retryable(response)
    THEN [f EXCEPT !.now = @ + Backoff(response, f.attempt),
                   !.attempt = @ + 1,
                   !.result = IF f.attempt = MAX_RETRIES THEN "None" ELSE "running"]
    ELSE [f EXCEPT !.result = IF response \in {"s403", "s400"} THEN "None"
                              ELSE IF response = "s200empty" THEN "Empty"
                              ELSE ImgContent(f.url)]

\* the state at line 410, all the rest of main being as after the set-up
AtRequest ==
    /\ pc = "crawl"
    /\ max_pages = 1
    /\ max_depth = 0
    /\ allow_domains = {base_hostname}
    /\ allowed_domains = AllowedDomains(allow_domains)
    /\ rp = {}
    /\ imagehash = TRUE
    /\ queue = <<>>
    /\ visited_pages = {}
    /\ downloaded_by_url = <<>>
    /\ page_url = StartPage
    /\ depth = 0
    /\ images_todo = <<>>
    /\ files = {}
    /\ file_bytes = <<>>
    /\ prior_files = {}
    /\ base_url = [scheme |-> "https", hostname |-> base_hostname]
    /\ returned = {}
    /\ written = {}
    /\ robots_fetched = TRUE
    /\ image_outcome = "none"
    /\ page_response = "none"
    /\ approved = "absent"
    /\ clusters = <<>>
    /\ deduped = <<>>
    /\ manifest = <<>>
    /\ page_fetches = <<>>
    /\ parsed_pages = {}
    /\ download_calls = [u \in ImageUrls |-> 0]
    /\ site = AnySite({})
    /\ run = 1
    /\ first_run = [manifest |-> <<>>, files |-> {}, file_bytes |-> <<>>]

InitFetch ==
    /\ AtRequest
    /\ \E rate \in RateLimitPool, e \in ElapsedPool, k \in {"page", "image"} :
          fetch = [kind |-> k, url |-> 1, wait_s |-> WaitOf(rate), now |-> e,
                   last_request_ts |-> 0, attempt |-> 1, result |-> "running",
                   base |-> 0, log |-> <<>>]

\* line 410: the one polite_get of a page
PageGet ==
    /\ fetch.kind = "page"
    /\ fetch.result = "running"
    /\ \E response \in PageResponses, duration \in DurationPool :
          fetch' = [polite_get(fetch, response, duration) EXCEPT
                       !.result = IF PageFailed(response) THEN "failed" ELSE "html"]
    /\ UNCHANGED main_vars

\* lines 414-432: after the page, some time later, download_image is called
BeginDownload ==
    /\ fetch.kind = "page"
    /\ fetch.result # "running"
    /\ \E idle \in IdlePool :
          fetch' = [fetch EXCEPT !.kind = "image", !.now = @ + idle, !.attempt = 1,
                                 !.result = "running", !.base = Len(fetch.log)]
    /\ UNCHANGED main_vars

\* lines 266-279: one iteration of download_image's loop
DownloadAttempt ==
    /\ fetch.kind = "image"
    /\ fetch.result = "running"
    /\ \E response \in Responses, duration \in DurationPool :
          fetch' = AfterAttempt(polite_get(fetch, response, duration), response)
    /\ UNCHANGED main_vars

NextFetch ==
    \/ PageGet
    \/ BeginDownload
    \/ DownloadAttempt

SpecFetch == InitFetch /\ [][NextFetch]_vars

\* ============================================================ properties
\* ----------------------------------------------------- helpers of the claims
Label(i) == downloaded_by_url[i].phashClusterId

Dist(i, j) == hamming_distance_hex(downloaded_by_url[i].phash, downloaded_by_url[j].phash)

Clustered == pc \in {"prune", "write", "done"}

CandidateIndexes == 1..Len(downloaded_by_url)

\* i is the first candidate, in input order, that carries its label
FirstOfLabel(i) == \A j \in 1..(i - 1) : Label(j) # Label(i)

\* host is d, or ends with a dot followed by d
HostUnder(host, d) ==
    \/ host = d
    \/ /\ Len(host) > Len(d)
       /\ host[Len(host) - Len(d)] = "."
       /\ \A n \in 1..Len(d) : host[Len(host) - Len(d) + n] = d[n]

ConfiguredHostnames == {Lower(d) : d \in allow_domains \ {<<>>}}

FetchedPages == {page_fetches[k][1] : k \in 1..Len(page_fetches)}

RECURSIVE WalkReach(_)
\* the pages at the end of a link path of exactly d hops from the start page
WalkReach(d) ==
    IF d = 0 THEN {StartPage}
    ELSE UNION {SeqToSet(SiteLinks(p)) : p \in WalkReach(d - 1)}

Score(i) == <<downloaded_by_url[i].bytes,
              downloaded_by_url[i].width * downloaded_by_url[i].height>>

ScoreGeq(a, b) == a[1] > b[1] \/ (a[1] = b[1] /\ a[2] >= b[2])

RECURSIVE LabelNumber(_)
\* the number a label's digits denote
LabelNumber(digits) ==
    IF digits = <<>> THEN 0
    ELSE 10 * LabelNumber(SubSeq(digits, 1, Len(digits) - 1)) + digits[Len(digits)]

\* ------------------------------------------------------------------- C1
\* C1: every image URL is the subject of at most one download_image call
\* per run, whatever the outcome of the first call was.
C1_DownloadedAtMostOnce == \A u \in ImageUrls : download_calls[u] <= 1

StoredSuffixes ==
    {".jpg", ".png", ".webp", ".gif", ".bmp", ".tif", ".tiff", ".avif", ".mpo"}

\* C3: at the end of the run every image file in the output directory
\* carries the filename of a surviving candidate of the manifest.
C3_OnlySurvivorsStored ==
    pc = "done" =>
        \A f \in files :
            f[2] \in StoredSuffixes =>
                \E r \in 1..Len(manifest) : manifest[r].filename = f

\* ------------------------------------------------------------------- C4
\* C4 as stated: two candidates at distance <= 6 carry the same label, and
\* two candidates at distance > 6 without a cluster representative within 6
\* of both carry different labels.
C4_CloseHashesShareLabel ==
    Clustered =>
        \A i, j \in CandidateIndexes :
            /\ Dist(i, j) <= PHASH_DISTANCE_THRESHOLD => Label(i) = Label(j)
            /\ ( /\ Dist(i, j) > PHASH_DISTANCE_THRESHOLD
                 /\ ~\E r \in CandidateIndexes :
                        /\ FirstOfLabel(r)
                        /\ Dist(r, i) <= PHASH_DISTANCE_THRESHOLD
                        /\ Dist(r, j) <= PHASH_DISTANCE_THRESHOLD )
               => Label(i) # Label(j)

\* C4 amended: a candidate carries the label of the first member r of a
\* cluster when it is at distance <= 6 from r and at distance > 6 from the
\* first member of every cluster created before r's; and two candidates at
\* distance > 6 without a cluster representative within 6 of both carry
\* different labels.
C4_LabelOfEarliestMatchingRep ==
    Clustered =>
        \A i, j \in CandidateIndexes :
            /\ ( /\ FirstOfLabel(j)
                 /\ Dist(i, j) <= PHASH_DISTANCE_THRESHOLD
                 /\ \A r \in 1..(j - 1) :
                        FirstOfLabel(r) => Dist(i, r) > PHASH_DISTANCE_THRESHOLD )
               => Label(i) = Label(j)
            /\ ( /\ Dist(i, j) > PHASH_DISTANCE_THRESHOLD
                 /\ ~\E r \in CandidateIndexes :
                        /\ FirstOfLabel(r)
                        /\ Dist(r, i) <= PHASH_DISTANCE_THRESHOLD
                        /\ Dist(r, j) <= PHASH_DISTANCE_THRESHOLD )
               => Label(i) # Label(j)

\* a later candidate at distance 1..6 from a first member shares its label
\* while a third candidate is in another cluster
C4_Witness ==
    /\ Clustered
    /\ \E i, j, k \in CandidateIndexes :
          /\ FirstOfLabel(j)
          /\ j < i
          /\ Dist(i, j) \in 1..PHASH_DISTANCE_THRESHOLD
          /\ Label(i) = Label(j)
          /\ Label(k) # Label(j)

\* ------------------------------------------------------------------- C5
\* C5: at every point of the crawl at most max_pages pages are visited and
\* at most max_pages page fetches have been issued, and every fetched page,
\* whatever its fetch returned, is among the visited ones.
C5_VisitBound ==
    /\ Cardinality(visited_pages) <= max_pages
    /\ Len(page_fetches) <= max_pages
    /\ FetchedPages = visited_pages

\* the loop ended on the page bound with pages left in the queue, and a
\* page whose fetch gave no markup counted
C5_Witness ==
    /\ pc = "cluster"
    /\ queue # <<>>
    /\ Cardinality(visited_pages) = max_pages
    /\ visited_pages \ parsed_pages # {}
    /\ parsed_pages # {}

\* ------------------------------------------------------------------- C6
\* C6: every fetched page was dequeued with a depth <= max_depth, every
\* depth in the queue or of a fetch is the length of a link path from the
\* start page to that page, and so every fetched page has a link path of at
\* most max_depth hops.
C6_DepthBound ==
    /\ \A k \in 1..Len(page_fetches) :
          /\ page_fetches[k][2] <= max_depth
          /\ page_fetches[k][1] \in WalkReach(page_fetches[k][2])
          /\ \E d \in 0..max_depth : page_fetches[k][1] \in WalkReach(d)
    /\ \A k \in 1..Len(queue) : queue[k][1] \in WalkReach(queue[k][2])

\* a page linked from a parsed page stayed unfetched although the page
\* budget was not used up and robots allows it
C6_Witness ==
    /\ pc = "done"
    /\ Cardinality(visited_pages) < max_pages
    /\ \E p \in Pages \ visited_pages :
          /\ p \notin rp
          /\ \E q \in parsed_pages : p \in SeqToSet(SiteLinks(q))

\* ------------------------------------------------------------------- C7
\* C7: no page that the robots policy disallows is ever fetched; when such
\* a page is dequeued it is dropped: nothing is fetched, visited, enqueued
\* or downloaded.
C7_RobotsCompliance ==
    /\ [](\A p \in FetchedPages : p \notin rp)
    /\ [][(pc = "crawl" /\ LoopGuard /\ Head(queue)[1] \in rp) =>
             /\ queue' = Tail(queue)
             /\ pc' = "crawl"
             /\ UNCHANGED <<visited_pages, page_fetches, parsed_pages,
                            download_calls, downloaded_by_url, files>>]_vars

\* the queue was drained and a disallowed page that a parsed page links to
\* was not fetched
C7_Witness ==
    /\ pc = "done"
    /\ queue = <<>>
    /\ Cardinality(visited_pages) < max_pages
    /\ max_depth >= 1
    /\ \E p \in rp :
          /\ p \notin visited_pages
          /\ \E q \in parsed_pages : p \in SeqToSet(SiteLinks(q))

\* ------------------------------------------------------------------- C8
\* C8: the candidate returned for a cluster has the largest
\* (bytes, width*height) pair of the cluster's members, and is the earliest
\* of the members that have this pair.
C8_BestIsEarliestMaximum ==
    Clustered =>
        \A k \in 1..Len(deduped) :
            \A m \in CandidateIndexes :
                Label(m) = Label(deduped[k]) =>
                    /\ ScoreGeq(Score(deduped[k]), Score(m))
                    /\ Score(m) = Score(deduped[k]) => deduped[k] <= m

\* a cluster whose returned candidate is not its first member and ties
\* with a later member
C8_Witness ==
    /\ Clustered
    /\ \E k \in 1..Len(deduped) :
          /\ deduped[k] # clusters[k].rep
          /\ \E m \in CandidateIndexes :
                /\ m > deduped[k]
                /\ Label(m) = Label(deduped[k])
                /\ Score(m) = Score(deduped[k])

\* ------------------------------------------------------------------- C9
\* C9: every input candidate is a member of exactly one cluster, the
\* output has one candidate per cluster, each output candidate is a member
\* of the cluster whose label it carries, and no two output candidates
\* carry the same label.
C9_Partition ==
    Clustered =>
        /\ \A i \in CandidateIndexes :
              Cardinality({kn \in {<<k, n>> : k \in 1..Len(clusters), n \in CandidateIndexes} :
                              /\ kn[2] <= Len(clusters[kn[1]].items)
                              /\ clusters[kn[1]].items[kn[2]] = i}) = 1
        /\ Len(deduped) = Len(clusters)
        /\ \A k \in 1..Len(deduped) :
              \E c \in 1..Len(clusters) :
                 /\ clusters[c].id = Label(deduped[k])
                 /\ deduped[k] \in SeqToSet(clusters[c].items)
        /\ \A k, m \in 1..Len(deduped) :
              k # m => Label(deduped[k]) # Label(deduped[m])

\* two clusters at least, one of them with several members
C9_Witness ==
    /\ Clustered
    /\ Len(clusters) >= 2
    /\ \E k \in 1..Len(clusters) : Len(clusters[k].items) >= 2

\* ------------------------------------------------------------------ C10
\* C10: the k-th cluster created carries the label numbered k, and the
\* manifest lists the surviving candidates in the order in which their
\* clusters were created, which is the ascending order of their labels.
C10_ManifestInCreationOrder ==
    pc = "done" =>
        /\ \A k \in 1..Len(clusters) : LabelNumber(clusters[k].id) = k
        /\ Len(manifest) = Len(clusters)
        /\ \A r \in 1..Len(manifest) :
              /\ manifest[r].sourceImageUrl =
                    downloaded_by_url[clusters[r].best].sourceImageUrl
              /\ manifest[r].phashClusterId = clusters[r].id
        /\ \A r \in 1..(Len(manifest) - 1) :
              StrLess(manifest[r].phashClusterId, manifest[r + 1].phashClusterId)

\* ------------------------------------------------------------------ C11
\* what the acceptance filter asks of a kept image: at least 40 KB, a
\* longer side of at least 600 pixels, no logo-like file name, not SVG
PassesFilter(c) ==
    /\ c.bytes >= 40960
    /\ Max2(c.width, c.height) >= 600
    /\ ~ImgLogoName(c.sourceImageUrl)
    /\ c.filename[2] # ".svg"

\* the image URLs whose served image the filter is to reject
FailsFilter(u) ==
    LET image == Content(ImgContent(u))
    IN /\ image.decodable
       /\ \/ image.bytes < 40960
          \/ Max2(image.width, image.height) < 600
          \/ ImgLogoName(u)
          \/ ImgSuffix(u) = ".svg"

\* C11: a downloaded image that fails the acceptance filter (under 40 KB,
\* longer side under 600 pixels, logo-like file name, or SVG) is never in
\* the accumulator nor in the manifest, and it is never written: every
\* file of the output directory was there when the run started or is the
\* file of a candidate of the accumulator.
C11_FilteredNeverKept ==
    /\ \A i \in CandidateIndexes : PassesFilter(downloaded_by_url[i])
    /\ \A r \in 1..Len(manifest) : PassesFilter(manifest[r])
    /\ \A f \in files :
          \/ f \in prior_files
          \/ \E i \in CandidateIndexes : downloaded_by_url[i].filename = f
    /\ \A u \in ImageUrls :
          FailsFilter(u) =>
             /\ \A f \in files \ prior_files : f[1] # ImgContent(u)
             /\ \A i \in CandidateIndexes : downloaded_by_url[i].sourceImageUrl # u
             /\ \A r \in 1..Len(manifest) : manifest[r].sourceImageUrl # u

\* the run is over, its last image was decoded and rejected by the filter,
\* and other images were kept
C11_Witness ==
    /\ pc = "done"
    /\ image_outcome = "filtered"
    /\ FailsFilter(7) /\ download_calls[7] = 1
    /\ Len(manifest) >= 1

\* ------------------------------------------------------------------ C12
\* the accepted candidates that hold the same bytes as candidate i
SameBytes(i) == {j \in CandidateIndexes : downloaded_by_url[j].id = downloaded_by_url[i].id}

\* the candidates of the returned list, as positions of the accumulator
Survivors == {deduped[k] : k \in 1..Len(deduped)}

\* the stored files whose name starts with the digest of candidate i's bytes
FilesOfBytes(i) == {f \in files : f[1] = downloaded_by_url[i].id}

\* C12 (as stated): when two different URLs accepted in one run delivered
\* identical bytes, the run ends with exactly one stored file for those
\* bytes and exactly one surviving candidate for them, the one of the URL
\* met first.
C12_OneFileOneSurvivor ==
    pc = "done" =>
        \A i \in CandidateIndexes :
            Cardinality(SameBytes(i)) >= 2 =>
                /\ Cardinality(FilesOfBytes(i)) = 1
                /\ Cardinality(SameBytes(i) \cap Survivors) = 1
                /\ \A j \in SameBytes(i) \cap Survivors :
                      \A m \in SameBytes(i) : j <= m

\* C12 (amended): when two different URLs accepted in one run delivered
\* identical bytes, their candidates carry the same cluster label and at
\* most one of them survives, the one of the URL met first; none survives
\* when a candidate with other bytes is the best of their cluster.  The
\* survivor's file is stored, and the run ends with no other file for
\* those bytes under an extension the pruning loop handles.
C12_AtMostOneSurvivorTheFirst ==
    pc = "done" =>
        \A i \in CandidateIndexes :
            Cardinality(SameBytes(i)) >= 2 =>
                /\ \A j \in SameBytes(i) : Label(j) = Label(i)
                /\ Cardinality(SameBytes(i) \cap Survivors) <= 1
                /\ \A j \in SameBytes(i) \cap Survivors :
                      /\ \A m \in SameBytes(i) : j <= m
                      /\ downloaded_by_url[j].filename \in files
                /\ (SameBytes(i) \cap Survivors = {}) <=>
                      (\E m \in Survivors \ SameBytes(i) : Label(m) = Label(i))
                /\ \A f \in FilesOfBytes(i) :
                      f[2] \in {".jpg", ".jpeg", ".png", ".webp", ".gif", ".bmp", ".tiff"} =>
                         \E j \in SameBytes(i) \cap Survivors :
                            downloaded_by_url[j].filename = f

\* URLs 1 and 10 delivered the same bytes under different extensions, the
\* candidate of URL 1 survived and the file of URL 10 was pruned
C12_Witness ==
    /\ pc = "done"
    /\ \E i, j \in CandidateIndexes :
          /\ i < j
          /\ downloaded_by_url[i].sourceImageUrl = 1
          /\ downloaded_by_url[j].sourceImageUrl = 10
          /\ downloaded_by_url[i].id = downloaded_by_url[j].id
          /\ i \in Survivors
          /\ downloaded_by_url[j].filename \notin files
          /\ downloaded_by_url[i].filename \in files

\* ------------------------------------------------------------------ C13
\* C13: a second run against the unchanged site, started on the output
\* directory the first run left, ends with the same manifest.json and the
\* same stored image files, names and contents.
C13_SecondRunSame ==
    (pc = "done" /\ run = 2) =>
        /\ manifest = first_run.manifest
        /\ files = first_run.files
        /\ file_bytes = first_run.file_bytes

\* the second run is over; both runs kept two images or more, found a file
\* of an earlier run in place, and stored and pruned the file of a loser
C13_Witness ==
    /\ pc = "done"
    /\ run = 2
    /\ Len(manifest) >= 2
    /\ \E f \in files : file_bytes[f] = "cut"
    /\ \E i \in CandidateIndexes : downloaded_by_url[i].filename \notin files

\* ------------------------------------------------------------------ C15
\* the start URL lacks an http/https scheme or a host
InvalidStart == base_url.scheme \notin {"http", "https"} \/ base_url.hostname = <<>>

\* C15: with a start URL that lacks an http/https scheme or a host, the
\* run issues no network request (robots.txt, page or image), writes none
\* of manifest.json, approved-manifest.json and review.html, and the only
\* way it ends is by returning a non-zero status.
C15_InvalidBaseUrlRejected ==
    InvalidStart =>
        /\ ~robots_fetched
        /\ page_fetches = <<>>
        /\ \A u \in ImageUrls : download_calls[u] = 0
        /\ written = {}
        /\ approved \in {"absent", "curated"}
        /\ Len(manifest) = 0
        /\ pc \in {"start", "exit"}
        /\ returned \subseteq {1}
        /\ pc = "exit" <=> returned = {1}

\* the run has returned 1 for an http URL without a host
C15_Witness ==
    /\ pc = "exit"
    /\ returned = {1}
    /\ base_url.scheme = "http"
    /\ base_url.hostname = <<>>

\* ------------------------------------------------------------------ C14
\* the crawl loop has left by its own condition and the run has written
\* its manifest and returned 0
Completed ==
    /\ pc = "done"
    /\ returned = {0}
    /\ "manifest.json" \in written
    /\ queue = <<>> \/ Cardinality(visited_pages) >= max_pages
    /\ Len(manifest) = Len(deduped)

\* how far main is from its return
Stage ==
    CASE pc = "start" -> 5
      [] pc \in {"crawl", "images"} -> 4
      [] pc = "cluster" -> 3
      [] pc = "prune" -> 2
      [] pc = "write" -> 1
      [] pc \in {"done", "exit"} -> 0

\* the work left: the stages to go, then the pages not yet visited, the
\* queue entries and the images of the current page
WorkLeft ==
    Stage * 1000
       + Cardinality(Pages \ visited_pages) * 100
       + Len(queue) * 4
       + Len(images_todo) * 2
       + (IF pc = "images" THEN 1 ELSE 0)

C16_ApprovedOnlyCreated ==
    [][/\ approved # "absent" => approved' = approved
       /\ approved' # approved =>
             /\ approved' = "empty"
             /\ pc = "write"
       /\ "approved-manifest.json" \in written' \ written =>
             /\ approved = "absent"
             /\ approved' = "empty"]_vars

\* a second run is over that found the empty array of the first run in
\* place and did not write the file
C16_Witness ==
    /\ pc = "done"
    /\ run = 2
    /\ approved = "empty"
    /\ written = {"manifest.json", "review.html"}

\* ------------------------------------------------------------------ C17
\* the number of requests issued for page p
PageAttempts(p) == Cardinality({k \in 1..Len(page_fetches) : page_fetches[k][1] = p})

\* the page of the latest page request
LastPage == page_fetches[Len(page_fetches)][1]

\* C17: a page whose request failed transiently (no response) or got a
\* 5xx answer is requested again, up to the retry bound (3 requests),
\* before it is abandoned and marked visited; it is not given up after a
\* single failed request.
C17_PageFetchRetried ==
    (page_fetches # <<>> /\ page_response \in {"exc", "s500"}) =>
        (LastPage \in visited_pages => PageAttempts(LastPage) = 3)

\* ------------------------------------------------------------------ C18
\* the requests download_image has issued, and the responses to them
DownloadRequests == Len(fetch.log) - fetch.base

DownloadResponse(k) == fetch.log[fetch.base + k].response

\* C18: download_image issues at most 3 requests and returns; it issues
\* another request only after a connection failure or a 5xx answer; it
\* returns no bytes at once on any 4xx answer, the body on the first
\* successful answer, and no bytes once the third attempt has failed.  Its
\* result is the one the crawl uses for the same answers.
C18_DownloadImageRetries ==
    fetch.kind = "image" =>
        /\ DownloadRequests <= 3
        /\ \A k \in 2..DownloadRequests : DownloadResponse(k - 1) \in {"exc", "s500"}
        /\ fetch.result = "running" =>
              /\ DownloadRequests < 3
              /\ ENABLED DownloadAttempt
        /\ fetch.result # "running" =>
              /\ DownloadRequests >= 1
              /\ LET last == DownloadResponse(DownloadRequests)
                 IN /\ last \in {"s403", "s400"} => fetch.result = "None"
                    /\ last = "s200" => fetch.result = ImgContent(fetch.url)
                    /\ last \in {"exc", "s500"} =>
                          (DownloadRequests = 3 /\ fetch.result = "None")
              /\ \A rs \in [1..3 -> Responses] :
                    (\A k \in 1..DownloadRequests : rs[k] = DownloadResponse(k)) =>
                        download_image(fetch.url, rs) = fetch.result

\* download_image has returned no bytes after three failed attempts, the
\* first on a connection failure and the last on a 5xx answer
C18_Witness ==
    /\ fetch.kind = "image"
    /\ fetch.result = "None"
    /\ DownloadRequests = 3
    /\ DownloadResponse(1) = "exc"
    /\ DownloadResponse(3) = "s500"

\* ------------------------------------------------------------------ C19
\* C19: of any two consecutive requests, page or image, retries included,
\* the later one starts no earlier than the configured delay after the
\* earlier one ended, and last_request_ts is the time at which the latest
\* request ended, whether it failed or succeeded.
C19_RequestsSpaced ==
    /\ \A k \in 1..Len(fetch.log) :
          fetch.log[k].start >=
             (IF k = 1 THEN 0 ELSE fetch.log[k - 1].end) + fetch.wait_s
    /\ fetch.log # <<>> => fetch.last_request_ts = fetch.log[Len(fetch.log)].end

\* a retry that had to wait: after a page request, the first image request
\* failed on a connection error and the second one started exactly the
\* delay after the first ended
C19_Witness ==
    /\ fetch.kind = "image"
    /\ fetch.wait_s = 800
    /\ fetch.base = 1
    /\ Len(fetch.log) >= 3
    /\ fetch.log[2].response = "exc"
    /\ fetch.log[3].start = fetch.log[2].end + 800

\* ------------------------------------------------------------------ C20
\* C20 (as stated): every pair held in the frontier queue has a depth of
\* at most max-depth; the links of a page at depth max-depth are not
\* enqueued.
C20_QueueWithinDepth ==
    \A k \in 1..Len(queue) : queue[k][2] <= max_depth

\* C20 (amended): every pair held in the frontier queue has a depth of at
\* most max-depth + 1: the links of a fetched page, which lies at depth
\* max-depth at most, are enqueued one level deeper without a depth test,
\* and a pair deeper than max-depth is dropped when it is dequeued, no
\* request being issued for it.
C20_QueueWithinDepthPlusOne ==
    /\ [](\A k \in 1..Len(queue) : queue[k][2] <= max_depth + 1)
    /\ [][(queue # <<>> /\ Head(queue)[2] > max_depth /\ queue' # queue) =>
             /\ queue' = Tail(queue)
             /\ UNCHANGED <<visited_pages, page_fetches, parsed_pages, pc>>]_vars

\* the queue holds a pair one level below max-depth behind the pair that
\* is dequeued next
C20_Witness ==
    /\ pc = "crawl"
    /\ Len(queue) >= 2
    /\ Head(queue)[2] <= max_depth
    /\ \E k \in 2..Len(queue) : queue[k][2] = max_depth + 1

\* ------------------------------------------------------------------ C21
\* the clusters created before candidate i was taken whose comparison
\* representative is within distance 6 of it
MatchingEarlier(i) ==
    {k \in 1..Len(clusters) : clusters[k].rep < i /\ Dist(i, clusters[k].rep) <= 6}

\* the cluster that holds candidate i
ClusterOf(i) == CHOOSE k \in 1..Len(clusters) : i \in SeqToSet(clusters[k].items)

\* C21: in cluster_candidates each candidate, taken in input order, joins
\* the earliest-created cluster whose comparison representative is within
\* Hamming distance 6 of it, and otherwise opens a new cluster; the
\* comparison representative of a cluster is its first member, also when
\* another member is its best, and clusters are kept in the order of
\* their creation.
C21_JoinsEarliestMatchingRep ==
    Clustered =>
        /\ \A k \in 1..Len(clusters) :
              /\ clusters[k].rep = clusters[k].items[1]
              /\ \A n \in 2..Len(clusters[k].items) :
                    clusters[k].items[n - 1] < clusters[k].items[n]
        /\ \A k \in 2..Len(clusters) : clusters[k - 1].rep < clusters[k].rep
        /\ \A i \in CandidateIndexes :
              /\ \E k \in 1..Len(clusters) : i \in SeqToSet(clusters[k].items)
              /\ IF MatchingEarlier(i) = {}
                 THEN clusters[ClusterOf(i)].rep = i
                 ELSE /\ ClusterOf(i) \in MatchingEarlier(i)
                      /\ \A k \in MatchingEarlier(i) : ClusterOf(i) <= k

\* a cluster whose best member is not its first one, and a later
\* candidate within distance 6 of that best member but not of the first
\* member, which did not join the cluster
C21_Witness ==
    /\ Clustered
    /\ \E k \in 1..Len(clusters), m \in CandidateIndexes :
          /\ clusters[k].best # clusters[k].rep
          /\ m > clusters[k].best
          /\ Dist(m, clusters[k].best) <= 6
          /\ Dist(m, clusters[k].rep) > 6
          /\ ClusterOf(m) # k

\* ------------------------------------------------------------------ C22
\* C22: each page is requested at most once in a run, also when it was
\* enqueued several times before it was first dequeued; a requested page,
\* whatever the answer, is in the visited set; and a page whose request
\* failed or whose answer is not HTML adds no link to the queue and
\* triggers no image download: images are only processed for, and
\* candidates only come from, pages that were parsed.
C22_FetchedOnceFailedAddNothing ==
    /\ [](/\ \A p \in Pages : PageAttempts(p) <= 1
          /\ FetchedPages \subseteq visited_pages
          /\ pc = "images" => page_url \in parsed_pages
          /\ \A i \in CandidateIndexes :
                downloaded_by_url[i].sourcePage \in parsed_pages)
    /\ [][(/\ page_fetches' # page_fetches
           /\ page_response' \in {"exc", "s404", "s500", "nonhtml"}) =>
             /\ queue' = Tail(queue)
             /\ Head(queue)[1] \in visited_pages'
             /\ Head(queue)[1] \notin parsed_pages'
             /\ pc' = "crawl"
             /\ UNCHANGED <<images_todo, download_calls, downloaded_by_url, files>>]_vars

\* a page that was enqueued twice got a non-HTML answer to its one
\* request, and its second queue entry is still waiting
C22_Witness ==
    /\ pc = "crawl"
    /\ page_fetches # <<>>
    /\ page_response = "nonhtml"
    /\ PageAttempts(LastPage) = 1
    /\ LastPage \in visited_pages \ parsed_pages
    /\ \E k \in 1..Len(queue) : queue[k][1] = LastPage

====
